---- MODULE Spec2Model ----
(***************************************************************************)
(* A model of dvtag: the title extractor (dvtag/_utils.py), the three tag  *)
(* synchronisers and tag() (dvtag/_dvtag.py), scrape() (dvtag/_scrape.py)  *)
(* and the driver loop start() (main.py).                                  *)
(*                                                                         *)
(* Strings are ASCII here.  The literals of the source are written:        *)
(*   "zh"         the genre tag U+4E2D U+6587 ("Chinese")                  *)
(*   "-portable"  the ".mp3" title suffix, "-hifi" the ".flac" one         *)
(*   "-noSE" / "-withSE"  the two sound-effect title suffixes              *)
(*   "["  the opening bracket U+3010,  "]"  the closing bracket U+3011     *)
(* A file-name stem and a title are sequences of one-character strings.    *)
(***************************************************************************)
EXTENDS Integers, Sequences, FiniteSets, TLC

VARIABLES
    \* ---- extract_titles applied to one file group (specification SpecTitles)
    sorted_stems,      \* the stems handed to extract_titles
    tgroup,            \* the group's suffix and the folder-name regex outcomes
    tconfig,           \* add_file_type_suffix, add_sound_effect_suffix
    extracted_titles,  \* <<>>, or <<the list extract_titles returned>>
    \* ---- one synchroniser called twice on one group (specification SpecSync)
    sfmt,              \* the kind of the group: "flac", "m4a" or "mp3"
    sdisk,             \* the tag container stored in each file of the group
    sfiles,            \* per file: sidecar .lrc present, the Chinese tag in its parent path
    sargs,             \* dv, png_bytes_arr, disc, add_chinese_tag of both calls
    scall,             \* 1, 2: the call in progress; 3: both returned
    sidx,              \* the loop position of the call in progress
    ssaves,            \* per call, the set of track positions it saved
    stitles,           \* extract_titles' result for the group
    \* ---- start() and tag() (specification Spec)
    add_chinese_tag,   \* config.ini, as tag() reads it (line 304)
    worknos,           \* the number of releases in start()'s sorted list
    ri,                \* the position of start()'s loop in worknos
    pc,                \* where the program is: "start", "scrape", "cover",
                       \* "groups", "file", "ffmpeg", "replace", "retry",
                       \* "exit" (start() returned), "raised" (an exception
                       \* left start())
    exc,               \* "", or what raised the exception that left start()
    entered,           \* the releases tag() has been called for
    paths_list,        \* the number of groups get_audio_paths_list found per kind
    gi,                \* the groups of this release already synchronised
    titles,            \* extract_titles' result for the group being synchronised
    gzh,               \* whether tag_mp4s finds the Chinese tag in the group's path
    idx,               \* the loop position (trck) inside the synchroniser
    dv,                \* <<>>, or <<the DoujinVoice record>>
    dv0,               \* dv as scrape() returned it
    png_bytes_arr,     \* <<>> (None), or <<the PNG bytes>>
    disc,              \* tag()'s disc
    calls,             \* the synchroniser calls tag() made: [kind, disc]
    cur,               \* the last completed loop iteration of a synchroniser
    repair,            \* the MP3 repair in progress: temporary and original file
    \* ---- scrape() on its own (specification SpecScrape)
    sweb,              \* what the network returns
    sresult            \* <<>>, or <<what scrape() did>>

titleVars == <<sorted_stems, tgroup, tconfig, extracted_titles>>
syncVars  == <<sfmt, sdisk, sfiles, sargs, scall, sidx, ssaves, stitles>>
tagVars   == <<add_chinese_tag, worknos, ri, pc, exc, entered, paths_list, gi, titles,
               gzh, idx, dv, dv0, png_bytes_arr, disc, calls, cur, repair>>
scrapeVars == <<sweb, sresult>>
vars      == <<titleVars, syncVars, tagVars, scrapeVars>>

-----------------------------------------------------------------------------
(* Bounds *)

MaxStems == 3     \* files in the group handed to extract_titles
MaxSyncFiles == 2 \* files in the group synchronised twice
MaxReleases == 2  \* releases start() finds
MaxGroups == 1    \* groups of one kind in a release
MaxFiles == 2     \* files in a group of a release
MaxCount == 2     \* the result count of an enrichment payload

-----------------------------------------------------------------------------
(* _title_pat and extract_titles, dvtag/_utils.py *)

Digits == {"0", "1", "2", "3"}
\* the class [\-_<U+2017>\s\.<U+FF0E><U+30FB>,<U+FF1A><U+3011>$] of _title_pat
SepChars == {"-", "_", " ", ".", ",", "]", "$"}
\* the lookahead class [<U+300C><U+300E><U+3010>] of _title_pat
OpenBrackets == {"["}
\* the one-character alternatives #, U+25A0, U+25C6, U+3010 of group 1
MarkerChars == {"#", "["}

Drop(s, n) == SubSeq(s, n + 1, Len(s))

RECURSIVE RunLen(_, _)
\* length of the longest prefix of s made of characters of class
RunLen(s, class) ==
    IF s # <<>> /\ Head(s) \in class THEN 1 + RunLen(Tail(s), class) ELSE 0

StartsWith(s, p) == Len(s) >= Len(p) /\ SubSeq(s, 1, Len(p)) = p

\* Group 1 of _title_pat, "(#|...|(?:[?tr(?:ack)?|...)[seps]*)?": what is
\* left of the stem after the optional prefix marker.  The word alternative
\* (IGNORECASE) swallows every separator that follows it; a one-character
\* marker swallows nothing more.  The alternatives start with different
\* characters and none starts with a digit, so at most one of them can be
\* followed by the digits group 2 needs.
AfterWord(s) ==
    LET t == IF StartsWith(s, <<"[">>) THEN Tail(s) ELSE s
        u == IF StartsWith(t, <<"t", "r", "a", "c", "k">>) THEN Drop(t, 5)
             ELSE IF StartsWith(t, <<"t", "r">>) THEN Drop(t, 2)
             ELSE <<>>
        isWord == StartsWith(t, <<"t", "r">>)
    IN  [word |-> isWord, rest |-> IF isWord THEN Drop(u, RunLen(u, SepChars)) ELSE s]

AfterPrefix(s) ==
    LET w == AfterWord(s)
    IN  IF w.word /\ w.rest # <<>> /\ Head(w.rest) \in Digits THEN w.rest
        ELSE IF s # <<>> /\ Head(s) \in MarkerChars THEN Tail(s)
        ELSE s

\* _title_pat.match(stem): [m |-> whether it matches, g4 |-> m.group(4)].
\* After the greedy digits (\d+) comes either a separator run, which gives
\* back its last character when nothing else is left for (.+), or the
\* zero-width lookahead before an opening bracket.
title_pat(stem) ==
    LET s    == AfterPrefix(stem)
        n    == RunLen(s, Digits)
        rest == Drop(s, n)
        k    == RunLen(rest, SepChars)
    IN  IF n = 0 THEN [m |-> FALSE, g4 |-> <<>>]
        ELSE IF k >= 1 /\ Len(rest) > k THEN [m |-> TRUE, g4 |-> Drop(rest, k)]
        ELSE IF k >= 2 THEN [m |-> TRUE, g4 |-> Drop(rest, k - 1)]
        ELSE IF k = 0 /\ rest # <<>> /\ Head(rest) \in OpenBrackets
             THEN [m |-> TRUE, g4 |-> rest]
        ELSE [m |-> FALSE, g4 |-> <<>>]

\* lines 246-250: the file-type suffix
FileTypeSuffix(suffix) ==
    IF suffix = ".mp3" THEN <<"-portable">>
    ELSE IF suffix = ".flac" THEN <<"-hifi">>
    ELSE <<>>

\* lines 253-269: the sound-effect suffix.  g.se, g.no, g.has are the
\* outcomes of re.search for sound_effect_pattern, no_sound_pattern and
\* has_sound_pattern on the parent or the grandparent folder name.
SoundEffectSuffix(g) ==
    IF g.se
    THEN IF g.no THEN <<"-noSE">>
         ELSE IF g.has THEN <<"-withSE">>
         ELSE <<>>
    ELSE <<>>

\* lines 235-271: the title of one stem
TitleOf(stem, g, cfg) ==
    LET m == title_pat(stem)
        t0 == IF m.m THEN m.g4 ELSE stem
        t1 == IF cfg.add_file_type_suffix THEN t0 \o FileTypeSuffix(g.suffix) ELSE t0
    IN  IF cfg.add_sound_effect_suffix THEN t1 \o SoundEffectSuffix(g) ELSE t1

\* extract_titles(sorted_stems, files): every file of a group has the
\* group's suffix and parent folder (get_audio_paths_list groups by both)
extract_titles(stems, g, cfg) ==
    [i \in 1..Len(stems) |-> TitleOf(stems[i], g, cfg)]

\* The suffixes extract_titles appends to any stem of the group
Suffixes(g, cfg) ==
    (IF cfg.add_file_type_suffix THEN FileTypeSuffix(g.suffix) ELSE <<>>)
    \o (IF cfg.add_sound_effect_suffix THEN SoundEffectSuffix(g) ELSE <<>>)

-----------------------------------------------------------------------------
(* os_sorted, as tag_mp3s / tag_flacs / tag_mp4s apply it to a group *)

CharRank(c) ==
    CASE c = " " -> 1 [] c = "#" -> 2 [] c = "$" -> 3 [] c = "," -> 4
      [] c = "-" -> 5 [] c = "." -> 6 [] c = "[" -> 7 [] c = "]" -> 8
      [] c = "_" -> 9 [] OTHER -> 10 + (CHOOSE i \in 1..26 :
            <<"a","b","c","d","e","f","g","h","i","j","k","l","m","n","o","p",
              "q","r","s","t","u","v","w","x","y","z">>[i] = c)

DigitVal(c) == CASE c = "0" -> 0 [] c = "1" -> 1 [] c = "2" -> 2 [] c = "3" -> 3

RECURSIVE NumVal(_)
NumVal(ds) == IF ds = <<>> THEN 0
              ELSE NumVal(SubSeq(ds, 1, Len(ds) - 1)) * 10 + DigitVal(ds[Len(ds)])

RECURSIVE NatLess(_, _)
\* a sorts strictly before b in natural order: digit runs compare as numbers,
\* a digit run sorts before text, a proper prefix before its extensions
NatLess(a, b) ==
    IF b = <<>> THEN FALSE
    ELSE IF a = <<>> THEN TRUE
    ELSE IF Head(a) \in Digits /\ Head(b) \in Digits
         THEN LET na == RunLen(a, Digits)
                  nb == RunLen(b, Digits)
                  va == NumVal(SubSeq(a, 1, na))
                  vb == NumVal(SubSeq(b, 1, nb))
              IN  IF va # vb THEN va < vb ELSE NatLess(Drop(a, na), Drop(b, nb))
    ELSE IF Head(a) \in Digits THEN TRUE
    ELSE IF Head(b) \in Digits THEN FALSE
    ELSE IF CharRank(Head(a)) # CharRank(Head(b))
         THEN CharRank(Head(a)) < CharRank(Head(b))
    ELSE NatLess(Tail(a), Tail(b))

\* a list os_sorted can return: distinct stems, none sorting before its
\* predecessor
IsOsSorted(stems) ==
    /\ \A i, j \in 1..Len(stems) : i # j => stems[i] # stems[j]
    /\ \A i \in 1..(Len(stems) - 1) : ~NatLess(stems[i + 1], stems[i])

-----------------------------------------------------------------------------
(* Inputs of extract_titles *)

StemPool ==
    { <<"0", "1", ".", " ", "i">>,      \* "01. i"  (as "01. Intro")
      <<"0", "2", ".", " ", "v">>,      \* "02. v"  (as "02. Verse")
      <<"0", "3", ".", " ", "i">>,      \* "03. i"
      <<"b", "a", "d">>,                \* "bad"
      <<"0", "1", " ", "x">>,           \* "01 x"
      <<"0", "2", " ", "x">>,           \* "02 x"
      <<"0", "3", "-", "x">>,           \* "03-x"
      <<"t", "r", "0", "1", " ", "a">>, \* "tr01 a"
      <<"t", "r", "0", "2", " ", "b">>, \* "tr02 b"
      <<"#", "1", "[", "x">>,           \* "#1[x"
      <<"0", "1">>,                     \* "01"
      <<"x">> }                         \* "x"

RECURSIVE StemLists(_)
\* the os_sorted lists of at most n stems of the pool
StemLists(n) ==
    IF n = 0 THEN {<<>>}
    ELSE LET shorter == StemLists(n - 1)
         IN  shorter \cup
             { Append(l, s) : l \in {x \in shorter : Len(x) = n - 1}, s \in StemPool }

SortedStemLists == {l \in StemLists(MaxStems) : IsOsSorted(l)}

Suffix == {".flac", ".m4a", ".mp3", ".mp4"}
TitleGroups == [suffix : Suffix, se : BOOLEAN, no : BOOLEAN, has : BOOLEAN]
TitleConfigs == [add_file_type_suffix : BOOLEAN, add_sound_effect_suffix : BOOLEAN]

TitlesInit ==
    /\ sorted_stems \in SortedStemLists
    /\ tgroup \in TitleGroups
    /\ tconfig \in TitleConfigs
    /\ extracted_titles = <<>>

TitlesIdle ==
    /\ sorted_stems = <<>>
    /\ tgroup = [suffix |-> ".mp3", se |-> FALSE, no |-> FALSE, has |-> FALSE]
    /\ tconfig = [add_file_type_suffix |-> TRUE, add_sound_effect_suffix |-> TRUE]
    /\ extracted_titles = <<>>

ExtractTitles ==
    /\ extracted_titles = <<>>
    /\ extracted_titles' = <<extract_titles(sorted_stems, tgroup, tconfig)>>
    /\ UNCHANGED <<sorted_stems, tgroup, tconfig, syncVars, tagVars, scrapeVars>>

-----------------------------------------------------------------------------
(* Values.  A string (a name, a title, a date, image bytes) is a sequence  *)
(* of tokens, so that the empty string is <<>>; a list of strings is a     *)
(* sequence of strings.  An Optional value is <<>> for None and <<v>>      *)
(* otherwise.                                                              *)
(*                                                                         *)
(* Tag containers.                                                         *)
(* ID3 (mutagen.id3.ID3): [frames, apic].  frames maps the FrameID of a    *)
(* text frame to its text list; apic maps the description of an APIC frame *)
(* to <<data>>.  A description is <<base, n>>: base followed by n spaces,  *)
(* so <<"", 0>> is the HashKey 'APIC:' and <<"Front Cover", 0>> is         *)
(* 'APIC:Front Cover'.                                                     *)
(* FLAC (mutagen.flac.FLAC): [vc, pictures].  vc maps a Vorbis comment key *)
(* to its list of values (assigning a bare string stores the one-element   *)
(* list); pictures is the list of picture data.                            *)
(* MP4 (mutagen.mp4.MP4): a function from atom names to values.  A value   *)
(* is a list, except that MP4Tags.__setitem__ keeps a bare string it is    *)
(* given as that string: PyStr(s) below.  Every value read from a file is  *)
(* a list.  The atom names are written without their leading U+00A9.       *)
(***************************************************************************)

NoDisc == 0   \* disc = None (line 337); "if disc:" treats both alike

Str(n) == << <<"0", "1", "2", "3", "4", "5", "6", "7", "8", "9", "10", "11", "12">>[n + 1] >>

Range(f) == {f[x] : x \in DOMAIN f}
Without(f, keys) == [k \in DOMAIN f \ keys |-> f[k]]
Put(f, k, v) == [x \in DOMAIN f \cup {k} |-> IF x = k THEN v ELSE f[x]]
EmptyFcn == [k \in {} |-> <<>>]

ChineseTag == <<"zh">>

ApicEmptyDesc == <<"", 0>>               \* HashKey 'APIC:'
FrontCover(n) == <<"Front Cover", n>>    \* HashKey 'APIC:Front Cover' + n spaces
ApicBack == <<"Back", 0>>                \* HashKey 'APIC:Back', some other description

\* lines 52 and 286: the keys tag_mp3s deletes and extract_id3_tags reads
Id3TextFrames == {"TALB", "TPE2", "TDRC", "TCON", "TPOS", "TPE1", "TIT2", "TRCK"}

\* genres = dv.genres instead of a copy: the append reaches the record
LocalGenresAliased(dv_genres, has_lrc, add_tag) ==
    IF add_tag /\ has_lrc /\ dv_genres # <<>> /\ ChineseTag \notin Range(dv_genres)
    THEN [genres |-> Append(dv_genres, ChineseTag),
          dv_genres |-> Append(dv_genres, ChineseTag)]
    ELSE [genres |-> IF add_tag /\ has_lrc /\ dv_genres = <<>> THEN <<ChineseTag>>
                     ELSE dv_genres,
          dv_genres |-> dv_genres]

\* lines 57-69, 201-213: the genres written to one FLAC or MP3 file.
\* [genres |-> the local list, dv_genres |-> dv.genres afterwards]:
\* list(dv.genres) is a copy, so the append leaves dv.genres alone.
LocalGenres(dv_genres, has_lrc, add_tag) ==
    IF add_tag /\ has_lrc
    THEN IF dv_genres # <<>>
         THEN [genres |-> IF ChineseTag \in Range(dv_genres) THEN dv_genres
                          ELSE Append(dv_genres, ChineseTag),
               dv_genres |-> dv_genres]
         ELSE [genres |-> <<ChineseTag>>, dv_genres |-> dv_genres]
    ELSE [genres |-> dv_genres, dv_genres |-> dv_genres]

\* lines 259-267: the genres written to one MP4 file; the condition is that
\* the Chinese tag occurs in str(p.parent), not that a .lrc file exists
Mp4LocalGenres(dv_genres, parent_has_zh, add_tag) ==
    IF add_tag /\ parent_has_zh
    THEN IF dv_genres # <<>>
         THEN [genres |-> IF ChineseTag \in Range(dv_genres) THEN dv_genres
                          ELSE Append(dv_genres, ChineseTag),
               dv_genres |-> dv_genres]
         ELSE [genres |-> <<ChineseTag>>, dv_genres |-> dv_genres]
    ELSE [genres |-> dv_genres, dv_genres |-> dv_genres]

RECURSIVE Join(_, _)
\* sep.join(l): one string
Join(sep, l) ==
    IF l = <<>> THEN <<>>
    ELSE IF Len(l) = 1 THEN l[1]
    ELSE l[1] \o <<sep>> \o Join(sep, Tail(l))

\* ---- ID3 ----------------------------------------------------------------

\* lines 286-290
extract_id3_tags(tags) ==
    LET text == [k \in DOMAIN tags.frames \cap Id3TextFrames |-> tags.frames[k]]
    IN  IF ApicEmptyDesc \in DOMAIN tags.apic
        THEN Put(text, "APIC:", tags.apic[ApicEmptyDesc])
        ELSE text

\* lines 52-84: the frames after the clearing and the adds
Id3Apply(tags, dvoice, genres, png, disc_number, title, trck) ==
    LET apic0 == Without(tags.apic, {ApicEmptyDesc})
        apic1 == IF png # <<>>
                 THEN Put(apic0, FrontCover(0), png)
                 ELSE apic0
        f0 == Without(tags.frames, Id3TextFrames)
        f1 == Put(Put(Put(f0, "TALB", <<dvoice.name>>), "TPE2", <<dvoice.circle>>),
                  "TDRC", <<dvoice.sale_date>>)
        f2 == IF genres # <<>> THEN Put(f1, "TCON", <<Join(";", genres)>>) ELSE f1
        f3 == IF disc_number # NoDisc THEN Put(f2, "TPOS", <<Str(disc_number)>>) ELSE f2
        f4 == IF dvoice.seiyus # <<>> THEN Put(f3, "TPE1", dvoice.seiyus) ELSE f3
    IN  [frames |-> Put(Put(f4, "TIT2", <<title>>), "TRCK", <<Str(trck)>>),
         apic |-> apic1]

\* ---- FLAC ---------------------------------------------------------------

FlacKeys == {"album", "albumartist", "date", "title", "tracknumber", "genre",
             "artist", "discnumber"}

\* lines 302-312; a key the comment block holds has a non-empty value list
extract_flac_tags(tags) ==
    Put([k \in DOMAIN tags.vc \cap FlacKeys |-> tags.vc[k]],
        "picture",
        IF tags.pictures # <<>> THEN <<tags.pictures[1]>> ELSE <<>>)

\* lines 191-226
FlacApply(tags, dvoice, genres, png, disc_number, title, trck) ==
    LET pics == IF png # <<>> THEN png ELSE tags.pictures
        v1 == Put(Put(Put(Put(Put(tags.vc, "album", <<dvoice.name>>),
                  "albumartist", <<dvoice.circle>>), "date", <<dvoice.sale_date>>),
                  "title", <<title>>), "tracknumber", <<Str(trck)>>)
        v2 == IF genres # <<>> THEN Put(v1, "genre", genres) ELSE v1
        v3 == IF dvoice.seiyus # <<>> THEN Put(v2, "artist", dvoice.seiyus) ELSE v2
        v4 == IF disc_number # NoDisc THEN Put(v3, "discnumber", <<Str(disc_number)>>) ELSE v3
    IN  [vc |-> v4, pictures |-> pics]

\* ---- MP4 ----------------------------------------------------------------

Mp4Keys == {"covr", "alb", "day", "nam", "aART", "ART", "gen", "trkn", "disk"}

StrMark == <<"<str>">>
PyStr(s) == <<StrMark, s>>      \* the bare string s, where a list is expected
IsPyStr(v) == v # <<>> /\ v[1] = StrMark

\* "if value:" of extract_mp4_tags: an empty string or an empty list is falsy
Mp4Truthy(v) == IF IsPyStr(v) THEN v[2] # <<>> ELSE v # <<>>

\* lines 324-329
extract_mp4_tags(tags) ==
    [k \in {x \in DOMAIN tags \cap Mp4Keys : Mp4Truthy(tags[x])} |-> tags[k]]

\* the (n, 0) of trkn and disk
Pair(n) == Str(n) \o <<"0">>

\* lines 255-282: MP4Tags.__setitem__ keeps the value it is given, a bare
\* string included (lines 270-273, 278)
Mp4Apply(tags, dvoice, genres, png, disc_number, title, trck) ==
    LET t0 == IF png # <<>> THEN Put(tags, "covr", png) ELSE tags
        t1 == Put(Put(Put(Put(Put(t0, "alb", PyStr(dvoice.name)),
                  "day", PyStr(dvoice.sale_date)), "nam", PyStr(title)),
                  "aART", PyStr(dvoice.circle)), "ART", dvoice.seiyus)
        t2 == IF genres # <<>> THEN Put(t1, "gen", PyStr(Join(", ", genres))) ELSE t1
        t3 == Put(t2, "trkn", <<Pair(trck)>>)
    IN  IF disc_number # NoDisc THEN Put(t3, "disk", <<Pair(disc_number)>>) ELSE t3

\* MP4.save followed by MP4(p): a bare string is stored as a one-element
\* list, so every value read back is a list
Mp4Stored(tags) ==
    [k \in DOMAIN tags |-> IF IsPyStr(tags[k]) THEN <<tags[k][2]>> ELSE tags[k]]

-----------------------------------------------------------------------------
(* One loop iteration of a synchroniser: open, snapshot, apply, snapshot,  *)
(* save on change.  args is [dv, png_bytes_arr, disc, add_chinese_tag];    *)
(* file is [has_lrc, parent_has_zh]; the result is                         *)
(* [after |-> the container in memory, save |-> whether tags.save is       *)
(*  called, stored |-> what the file holds once saved,                     *)
(*  genres |-> the local genres, dv_genres |-> dv.genres afterwards].      *)
(***************************************************************************)

\* tag_mp3s, lines 48-91 (and the same sequence again at lines 125-165)
SyncId3(tags, args, file, title, trck) ==
    LET g     == LocalGenres(args.dv.genres, file.has_lrc, args.add_chinese_tag)
        after == Id3Apply(tags, args.dv, g.genres, args.png_bytes_arr, args.disc,
                          title, trck)
        save  == extract_id3_tags(tags) # extract_id3_tags(after)
    IN  [after |-> after, save |-> save, stored |-> IF save THEN after ELSE tags,
         genres |-> g.genres, dv_genres |-> g.dv_genres]

\* tag_flacs, lines 187-233
SyncFlac(tags, args, file, title, trck) ==
    LET g     == LocalGenres(args.dv.genres, file.has_lrc, args.add_chinese_tag)
        after == FlacApply(tags, args.dv, g.genres, args.png_bytes_arr, args.disc,
                           title, trck)
        save  == extract_flac_tags(tags) # extract_flac_tags(after)
    IN  [after |-> after, save |-> save, stored |-> IF save THEN after ELSE tags,
         genres |-> g.genres, dv_genres |-> g.dv_genres]

\* tag_mp4s, lines 251-289
SyncMp4(tags, args, file, title, trck) ==
    LET g     == Mp4LocalGenres(args.dv.genres, file.parent_has_zh, args.add_chinese_tag)
        after == Mp4Apply(tags, args.dv, g.genres, args.png_bytes_arr, args.disc,
                          title, trck)
        save  == extract_mp4_tags(tags) # extract_mp4_tags(after)
    IN  [after |-> after, save |-> save,
         stored |-> IF save THEN Mp4Stored(after) ELSE tags,
         genres |-> g.genres, dv_genres |-> g.dv_genres]

SyncFile(fmt, tags, args, file, title, trck) ==
    CASE fmt = "id3"  -> SyncId3(tags, args, file, title, trck)
      [] fmt = "flac" -> SyncFlac(tags, args, file, title, trck)
      [] fmt = "mp4"  -> SyncMp4(tags, args, file, title, trck)

-----------------------------------------------------------------------------
(* Inputs of the synchronisers *)

DvName == <<"A">>
DvCircle == <<"C">>
DvSaleDate == <<"2024", "-", "01", "-", "02">>
GenreLists == {<<>>, << <<"g">> >>, << <<"g">>, ChineseTag >>}
SeiyuLists == {<<>>, << <<"s">> >>}
Cover == <<"P">>        \* png_bytes_arr.getvalue() of the fetched cover
OtherCover == <<"Q">>   \* some other image a file may hold
Old == <<"old">>        \* some other text a file may hold

DvId == "RJ000001"
DvImageUrl == "https://file.chobit.cc/t.jpg"

Dvs == [id : {DvId}, name : {DvName}, image_url : {DvImageUrl}, seiyus : SeiyuLists,
        circle : {DvCircle}, genres : GenreLists, sale_date : {DvSaleDate}]

FileAttrs == [has_lrc : BOOLEAN, parent_has_zh : BOOLEAN]

DefaultTitleConfig == [add_file_type_suffix |-> TRUE, add_sound_effect_suffix |-> TRUE]

\* the stems of the files of a group of n files, os_sorted
GroupStems(n) == [i \in 1..n |-> <<"0">> \o Str(i) \o <<" ", "x">> \o Str(i)]

SuffixOf(kind) ==
    CASE kind = "flac" -> ".flac" [] kind = "m4a" -> ".m4a"
      [] kind = "mp3" -> ".mp3" [] kind = "mp4" -> ".mp4"

\* the synchroniser tag() calls for a group of each kind (lines 343-364)
FmtOf(kind) ==
    CASE kind = "flac" -> "flac" [] kind = "m4a" -> "mp4"
      [] kind = "mp3" -> "id3" [] kind = "mp4" -> "mp4"

\* titles = extract_titles(...), lines 44, 184, 248
GroupTitles(kind, n) ==
    extract_titles(GroupStems(n),
                   [suffix |-> SuffixOf(kind), se |-> FALSE, no |-> FALSE, has |-> FALSE],
                   DefaultTitleConfig)

\* Containers a file may hold when it is opened, given what the
\* synchroniser is about to write (target = the container it would build
\* from an empty one, without a cover).
Id3Empty == [frames |-> EmptyFcn, apic |-> EmptyFcn]
Id3Foreign ==
    [frames |-> [k \in {"TALB", "TCON", "TPOS", "TPE1", "TIT2"} |-> <<Old>>],
     apic |-> Put(EmptyFcn, ApicEmptyDesc, <<OtherCover>>)]
Id3Profiles(args, file, title, trck) ==
    LET a0 == [args EXCEPT !.png_bytes_arr = <<>>]
        target == SyncId3(Id3Empty, a0, file, title, trck).after
    IN  { Id3Empty, Id3Foreign, target,
          [target EXCEPT !.apic = Put(EmptyFcn, ApicEmptyDesc, <<OtherCover>>)],
          [target EXCEPT !.apic = Put(EmptyFcn, FrontCover(0), <<OtherCover>>)],
          [target EXCEPT !.apic = Put(EmptyFcn, ApicBack, <<OtherCover>>)] }

FlacEmpty == [vc |-> EmptyFcn, pictures |-> <<>>]
FlacForeign ==
    [vc |-> [k \in {"album", "genre", "discnumber", "artist", "title"} |-> <<Old>>],
     pictures |-> <<OtherCover>>]
FlacProfiles(args, file, title, trck) ==
    LET a0 == [args EXCEPT !.png_bytes_arr = <<>>]
        target == SyncFlac(FlacEmpty, a0, file, title, trck).after
    IN  { FlacEmpty, FlacForeign, target,
          [target EXCEPT !.pictures = <<OtherCover>>],
          [target EXCEPT !.pictures = <<Cover, OtherCover>>],
          [target EXCEPT !.pictures = <<Cover>>] }

Mp4Empty == EmptyFcn
Mp4Foreign ==
    [k \in {"alb", "gen", "disk", "ART", "nam", "covr"} |->
        IF k = "covr" THEN <<OtherCover>>
        ELSE IF k = "disk" THEN <<Pair(9)>>
        ELSE <<Old>>]
Mp4Profiles(args, file, title, trck) ==
    LET a0 == [args EXCEPT !.png_bytes_arr = <<>>]
        target == Mp4Stored(SyncMp4(Mp4Empty, a0, file, title, trck).after)
    IN  { Mp4Empty, Mp4Foreign, target,
          Put(target, "covr", <<OtherCover>>),
          Put(target, "covr", <<Cover>>) }

Profiles(fmt, args, file, title, trck) ==
    CASE fmt = "id3"  -> Id3Profiles(args, file, title, trck)
      [] fmt = "flac" -> FlacProfiles(args, file, title, trck)
      [] fmt = "mp4"  -> Mp4Profiles(args, file, title, trck)

-----------------------------------------------------------------------------
(* SpecSync: one synchroniser called twice in a row on one group of files  *)
(* that open without error, with the same arguments.                       *)

SyncKinds == {"flac", "m4a", "mp3"}

SyncArgs == [dv : Dvs, png_bytes_arr : {<<>>, <<Cover>>}, disc : {NoDisc, 1},
             add_chinese_tag : BOOLEAN]

\* what a synchroniser reads of a file's surroundings: tag_mp4s the
\* directory's name, the other two the .lrc file
SyncAttrs(fmt, zh) ==
    { a \in FileAttrs : IF fmt = "mp4" THEN a.parent_has_zh = zh /\ ~a.has_lrc
                        ELSE ~a.parent_has_zh }

RECURSIVE SyncGroups(_, _, _, _, _)
\* the first i files of a group of n: [file, disk] each
SyncGroups(knd, args, zh, n, i) ==
    IF i = 0 THEN {<<>>}
    ELSE LET title == GroupTitles(knd, n)[i]
         IN  UNION { { Append(pair[1], [file |-> pair[2], disk |-> d]) :
                         d \in Profiles(FmtOf(knd), args, pair[2], title, i) } :
                     pair \in SyncGroups(knd, args, zh, n, i - 1)
                                  \X SyncAttrs(FmtOf(knd), zh) }

SyncInit ==
    /\ sfmt \in SyncKinds
    /\ sargs \in SyncArgs
    /\ \E n \in 1..MaxSyncFiles, zh \in BOOLEAN :
         \E g \in SyncGroups(sfmt, sargs, zh, n, n) :
            /\ sfiles = [i \in 1..n |-> g[i].file]
            /\ sdisk = [i \in 1..n |-> g[i].disk]
            /\ stitles = GroupTitles(sfmt, n)
    /\ scall = 1
    /\ sidx = 1
    /\ ssaves = <<{}, {}>>

SyncIdle ==
    /\ sfmt = "mp3"
    /\ sargs = [dv |-> [id |-> DvId, name |-> DvName, image_url |-> DvImageUrl,
                        seiyus |-> <<>>, circle |-> DvCircle, genres |-> <<>>,
                        sale_date |-> DvSaleDate],
                png_bytes_arr |-> <<>>, disc |-> NoDisc, add_chinese_tag |-> TRUE]
    /\ sfiles = <<>>
    /\ sdisk = <<>>
    /\ stitles = <<>>
    /\ scall = 3
    /\ sidx = 1
    /\ ssaves = <<{}, {}>>

\* one iteration of the for loop of the call in progress
SyncStep ==
    /\ scall \in {1, 2}
    /\ sidx <= Len(sdisk)
    /\ LET r == SyncFile(FmtOf(sfmt), sdisk[sidx], sargs, sfiles[sidx],
                         stitles[sidx], sidx)
       IN  /\ sdisk' = [sdisk EXCEPT ![sidx] = r.stored]
           /\ ssaves' = IF r.save THEN [ssaves EXCEPT ![scall] = @ \cup {sidx}]
                        ELSE ssaves
           /\ sargs' = [sargs EXCEPT !.dv.genres = r.dv_genres]
    /\ sidx' = sidx + 1
    /\ UNCHANGED <<sfmt, sfiles, scall, stitles, titleVars, tagVars, scrapeVars>>

\* the call in progress returns; the second call starts
SyncReturn ==
    /\ scall \in {1, 2}
    /\ sidx > Len(sdisk)
    /\ scall' = scall + 1
    /\ sidx' = 1
    /\ UNCHANGED <<sfmt, sdisk, sfiles, sargs, ssaves, stitles, titleVars, tagVars, scrapeVars>>

SyncNext == SyncStep \/ SyncReturn

-----------------------------------------------------------------------------
(* scrape(), dvtag/_scrape.py.  What the network returns is the record     *)
(* web = [http, html, payload]:                                            *)
(*   http     "ok", or which _get_200 raises: "primary" (lines 35, 50) or  *)
(*            "chobit" (line 78)                                           *)
(*   html     what the regular expressions find in the page:               *)
(*            product <<>> or <<[name, circle]>> (line 52), og_image <<>>  *)
(*            or <<url>> (line 58), seiyus, genres, sale_date <<>> or      *)
(*            <<year, month, day>> (line 71)                               *)
(*   payload  [json_ok, count, works]: whether json.loads and data["count"]*)
(*            succeed, the count, and data["works"]                        *)
(***************************************************************************)

\* html.unescape, token by token
unescape(str) == [i \in 1..Len(str) |-> IF str[i] = "&amp;" THEN "&" ELSE str[i]]

\* urljoin("https://www.dlsite.com", unescape(url)), line 59, for a url that
\* holds no character reference
urljoin(url) ==
    IF url = "/og.jpg" THEN "https://www.dlsite.com/og.jpg" ELSE url

\* work["thumb"].replace("media.dlsite.com/chobit", "file.chobit.cc", 1), line 85
ThumbUrl(thumb) ==
    IF thumb = "https://media.dlsite.com/chobit/t.jpg" THEN "https://file.chobit.cc/t.jpg"
    ELSE thumb

\* name.startswith(work["work_name"]) instead of the containment test
IsPrefixOnly(a, b) == Len(a) <= Len(b) /\ SubSeq(b, 1, Len(a)) = a

\* work["work_name"] in name, line 88
IsSubstring(a, b) ==
    \E i \in 0..(Len(b) - Len(a)) : SubSeq(b, i + 1, i + Len(a)) = a

\* [status |-> "ok" | "ParsingError" | "Exception", dv |-> <<>> or <<record>>]
scrape(workno, web) ==
    LET html == web.html
        fail(kind) == [status |-> kind, dv |-> <<>>]
    IN  IF web.http = "primary" THEN fail("Exception")
        ELSE IF html.product = <<>> THEN fail("ParsingError")
        ELSE IF html.og_image = <<>> THEN fail("ParsingError")
        ELSE IF html.sale_date = <<>> THEN fail("ParsingError")
        ELSE IF web.http = "chobit" THEN fail("Exception")
        ELSE IF ~web.payload.json_ok THEN fail("ParsingError")
        ELSE IF web.payload.count # 0 /\ web.payload.works = <<>> THEN fail("ParsingError")
        ELSE
        LET name0  == unescape(html.product[1].name)
            circle == unescape(html.product[1].circle)
            image0 == urljoin(html.og_image[1])
            d      == html.sale_date
            hit    == web.payload.count # 0
            work   == web.payload.works[1]
            image  == IF hit /\ work.file_type = "audio" THEN ThumbUrl(work.thumb)
                      ELSE image0
            name   == IF hit /\ IsSubstring(work.work_name, name0) THEN work.work_name
                      ELSE name0
        IN  [status |-> "ok",
             dv |-> <<[id |-> workno, name |-> name, image_url |-> image,
                       seiyus |-> html.seiyus, circle |-> circle,
                       genres |-> html.genres,
                       sale_date |-> <<d[1], "-", d[2], "-", d[3]>>]>>]

\* What the network returns for a release tag() handles
GoodHtml(genres, seiyus) ==
    [product |-> <<[name |-> <<"A", "!">>, circle |-> <<"C">>]>>,
     og_image |-> <<"/og.jpg">>, seiyus |-> seiyus, genres |-> genres,
     sale_date |-> <<"2024", "01", "02">>]
GoodPayload ==
    [json_ok |-> TRUE, count |-> 1,
     works |-> <<[file_type |-> "audio", thumb |-> "https://media.dlsite.com/chobit/t.jpg",
                  work_name |-> <<"A">>]>>]
TagWebs ==
    { [http |-> "ok", html |-> GoodHtml(g, << <<"s">> >>), payload |-> GoodPayload] :
          g \in GenreLists }
    \cup { [http |-> h, html |-> GoodHtml(<<>>, <<>>), payload |-> GoodPayload] :
             h \in {"primary", "chobit"} }
    \cup { [http |-> "ok", html |-> [GoodHtml(<<>>, <<>>) EXCEPT !.sale_date = <<>>],
            payload |-> GoodPayload],
           [http |-> "ok", html |-> GoodHtml(<<>>, <<>>),
            payload |-> [GoodPayload EXCEPT !.json_ok = FALSE]] }

-----------------------------------------------------------------------------
(* SpecScrape: scrape() called once on what the network returns.  The      *)
(* groups of the regular expressions are (.+) and (\d+): a product name, a  *)
(* circle and the parts of a date are never empty when they are found.     *)

ScrapeNames == {<<"A">>, <<"A", "!">>, <<"!", "A">>, <<"&amp;", "A">>}
ScrapeWorkNames == {<<>>, <<"A">>, <<"B">>, <<"A", "!">>, <<"&", "A">>}

ScrapeHtmls ==
    [product : {<<>>} \cup { <<[name |-> n, circle |-> <<"C">>]>> : n \in ScrapeNames },
     og_image : {<<>>, <<"/og.jpg">>},
     seiyus : {<< <<"s">> >>},
     genres : {<< <<"g">> >>},
     sale_date : {<<>>, <<"2024", "01", "02">>}]

ScrapeWorks ==
    [file_type : {"audio", "video"},
     thumb : {"https://media.dlsite.com/chobit/t.jpg"},
     work_name : ScrapeWorkNames]

ScrapePayloads ==
    [json_ok : BOOLEAN, count : 0..MaxCount,
     works : {<<>>} \cup { <<w>> : w \in ScrapeWorks }]

ScrapeWebs == [http : {"ok", "primary", "chobit"}, html : ScrapeHtmls,
               payload : ScrapePayloads]

ScrapeInit ==
    /\ sweb \in ScrapeWebs
    /\ sresult = <<>>

ScrapeIdle ==
    /\ sweb = [http |-> "ok", html |-> GoodHtml(<<>>, <<>>), payload |-> GoodPayload]
    /\ sresult = <<"idle">>

ScrapeCall ==
    /\ sresult = <<>>
    /\ sresult' = <<scrape(DvId, sweb)>>
    /\ UNCHANGED <<sweb, titleVars, syncVars, tagVars>>

-----------------------------------------------------------------------------
(* tag(), dvtag/_dvtag.py, and start(), main.py *)

\* line 338
total_lists(paths) == paths["flac"] + paths["m4a"] + paths["mp3"] + paths["mp4"]

\* lines 337-340
InitialDisc(total) == IF total > 1 THEN 1 ELSE NoDisc

\* a tag() that hands every group the disc of the first
NextDiscStuck(d) == d

\* lines 345-346, 351-352, 357-358, 363-364
NextDisc(d) == IF d # NoDisc THEN d + 1 ELSE d

\* lines 343-364: the kind of the k-th group the four loops reach
KindAt(paths, k) ==
    IF k <= paths["flac"] THEN "flac"
    ELSE IF k <= paths["flac"] + paths["m4a"] THEN "m4a"
    ELSE IF k <= paths["flac"] + paths["m4a"] + paths["mp3"] THEN "mp3"
    ELSE "mp4"

\* lines 329-334: get_image returns None or raises, or get_png_byte_arr
\* raises (as it does on None): png_bytes_arr = None
FetchCover(outcome) == IF outcome = "ok" THEN <<Cover>> ELSE <<>>

Layouts == [{"flac", "m4a", "mp3", "mp4"} -> 0..MaxGroups]
NoPaths == [k \in {"flac", "m4a", "mp3", "mp4"} |-> 0]

NoCur == [valid |-> FALSE]
\* temp: the temporary file is "absent", "created" (empty) or "encoded";
\* orig: the file is "intact" or "reencoded"; failed: "", or the step of the
\* repair that failed ("transcode", "start", "replace", "retry")
NoRepair == [temp |-> "absent", orig |-> "intact", failed |-> ""]

\* what tag() holds for the release at hand, before get_audio_paths_list
ReleaseReset ==
    /\ paths_list' = NoPaths
    /\ gi' = 0
    /\ titles' = <<>>
    /\ gzh' = FALSE
    /\ idx' = 0
    /\ dv' = <<>>
    /\ dv0' = <<>>
    /\ png_bytes_arr' = <<>>
    /\ disc' = NoDisc
    /\ calls' = <<>>
    /\ cur' = NoCur
    /\ repair' = NoRepair

TagInit ==
    /\ add_chinese_tag \in BOOLEAN
    /\ worknos \in 1..MaxReleases
    /\ ri = 1
    /\ pc = "start"
    /\ exc = ""
    /\ entered = {}
    /\ paths_list = NoPaths
    /\ gi = 0
    /\ titles = <<>>
    /\ gzh = FALSE
    /\ idx = 0
    /\ dv = <<>>
    /\ dv0 = <<>>
    /\ png_bytes_arr = <<>>
    /\ disc = NoDisc
    /\ calls = <<>>
    /\ cur = NoCur
    /\ repair = NoRepair

TagIdle ==
    /\ add_chinese_tag = TRUE
    /\ worknos = 0
    /\ ri = 1
    /\ pc = "exit"
    /\ exc = ""
    /\ entered = {}
    /\ paths_list = NoPaths
    /\ gi = 0
    /\ titles = <<>>
    /\ gzh = FALSE
    /\ idx = 0
    /\ dv = <<>>
    /\ dv0 = <<>>
    /\ png_bytes_arr = <<>>
    /\ disc = NoDisc
    /\ calls = <<>>
    /\ cur = NoCur
    /\ repair = NoRepair

\* an exception leaves tag() and, start() catching nothing, the program
Raise(what) ==
    /\ pc' = "raised"
    /\ exc' = what

\* main.py lines 40-47, _dvtag.py lines 307-309: tag() finds no audio file
TagNoAudio ==
    /\ pc = "start"
    /\ ri <= worknos
    /\ entered' = entered \cup {ri}
    /\ ri' = ri + 1
    /\ ReleaseReset
    /\ UNCHANGED <<titleVars, syncVars, scrapeVars>>
    /\ UNCHANGED <<add_chinese_tag, worknos, pc, exc>>

\* main.py lines 40-47, _dvtag.py lines 307-309: tag() finds audio files
TagEnter ==
    /\ pc = "start"
    /\ ri <= worknos
    /\ entered' = entered \cup {ri}
    /\ \E paths \in Layouts :
        /\ total_lists(paths) > 0
        /\ paths_list' = paths
    /\ pc' = "scrape"
    /\ UNCHANGED <<titleVars, syncVars, scrapeVars>>
    /\ UNCHANGED <<add_chinese_tag, worknos, ri, exc, gi, titles, gzh, idx, dv, dv0,
                   png_bytes_arr, disc, calls, cur, repair>>

\* main.py line 40: the loop is over
StartReturn ==
    /\ pc = "start"
    /\ ri > worknos
    /\ pc' = "exit"
    /\ UNCHANGED <<titleVars, syncVars, scrapeVars>>
    /\ UNCHANGED <<add_chinese_tag, worknos, ri, exc, entered, paths_list, gi, titles,
                   gzh, idx, dv, dv0, png_bytes_arr, disc, calls, cur, repair>>

\* a tag() that goes on to the cover whatever scrape() did
AfterScrapeCarryOn(status) == "cover"

\* lines 312-318: where tag() goes after scrape(): on to the cover, out with
\* the ParsingError raised again, or, the exception logged, back to start()
AfterScrape(status) ==
    CASE status = "ok" -> "cover"
      [] status = "ParsingError" -> "raised"
      [] status = "Exception" -> "start"

\* lines 312-318
Scrape ==
    /\ pc = "scrape"
    /\ \E web \in TagWebs :
        LET r == scrape(DvId, web)
            next == AfterScrape(r.status)
        IN  CASE next = "cover" ->
                    /\ dv' = r.dv
                    /\ dv0' = r.dv
                    /\ pc' = "cover"
                    /\ UNCHANGED <<ri, exc, paths_list>>
              [] next = "raised" ->
                    /\ Raise("ParsingError")
                    /\ UNCHANGED <<ri, dv, dv0, paths_list>>
              [] next = "start" ->
                    /\ pc' = "start"
                    /\ ri' = ri + 1
                    /\ paths_list' = NoPaths
                    /\ UNCHANGED <<exc, dv, dv0>>
    /\ UNCHANGED <<titleVars, syncVars, scrapeVars>>
    /\ UNCHANGED <<add_chinese_tag, worknos, entered, gi, titles, gzh, idx,
                   png_bytes_arr, disc, calls, cur, repair>>

\* lines 329-340
CoverFetch ==
    /\ pc = "cover"
    /\ \E outcome \in {"ok", "none", "raises"} :
        png_bytes_arr' = FetchCover(outcome)
    /\ disc' = InitialDisc(total_lists(paths_list))
    /\ pc' = "groups"
    /\ UNCHANGED <<titleVars, syncVars, scrapeVars>>
    /\ UNCHANGED <<add_chinese_tag, worknos, ri, exc, entered, paths_list, gi, titles,
                   gzh, idx, dv, dv0, calls, cur, repair>>

\* lines 343-344, 349-350, 355-356, 361-362: the next synchroniser call,
\* up to its loop (lines 43-46, 183-186, 247-250)
GroupCall ==
    /\ pc = "groups"
    /\ gi < total_lists(paths_list)
    /\ calls' = Append(calls, [kind |-> KindAt(paths_list, gi + 1), disc |-> disc])
    /\ \E n \in 1..MaxFiles, zh \in BOOLEAN :
        /\ titles' = GroupTitles(KindAt(paths_list, gi + 1), n)
        \* only tag_mp4s looks at the directory's name (line 259)
        /\ gzh' = (zh /\ FmtOf(KindAt(paths_list, gi + 1)) = "mp4")
    /\ idx' = 1
    /\ pc' = "file"
    /\ cur' = NoCur
    /\ UNCHANGED <<titleVars, syncVars, scrapeVars>>
    /\ UNCHANGED <<add_chinese_tag, worknos, ri, exc, entered, paths_list, gi, dv, dv0,
                   png_bytes_arr, disc, repair>>

kind == KindAt(paths_list, gi + 1)
Args == [dv |-> dv[1], png_bytes_arr |-> png_bytes_arr, disc |-> disc,
         add_chinese_tag |-> add_chinese_tag]
Title == titles[idx]

\* the open-to-save sequence on the container `before`, for the file at idx;
\* tags.save may raise
Synchronise(before, has_lrc, save_ok) ==
    LET file == [has_lrc |-> has_lrc, parent_has_zh |-> gzh]
        r == SyncFile(FmtOf(kind), before, Args, file, Title, idx)
    IN  /\ dv' = <<[dv[1] EXCEPT !.genres = r.dv_genres]>>
        /\ IF r.save /\ ~save_ok
           THEN /\ Raise("file")
                /\ UNCHANGED <<idx, cur>>
           ELSE /\ cur' = [valid |-> TRUE, fmt |-> FmtOf(kind), kind |-> kind,
                           before |-> before, after |-> r.after, save |-> r.save,
                           stored |-> r.stored, args |-> Args, file |-> file,
                           title |-> Title, trck |-> idx, genres |-> r.genres]
                /\ idx' = idx + 1
                /\ pc' = "file"
                /\ UNCHANGED exc

\* tag_flacs lines 186-233, tag_mp4s lines 250-289: one loop iteration;
\* FLAC(p) / MP4(p) may raise
FileSync ==
    /\ pc = "file"
    /\ idx <= Len(titles)
    /\ kind # "mp3"
    /\ \E opened \in BOOLEAN :
        IF opened
        THEN \E has_lrc \in BOOLEAN, save_ok \in BOOLEAN :
               \E before \in Profiles(FmtOf(kind), Args,
                                      [has_lrc |-> has_lrc, parent_has_zh |-> gzh],
                                      Title, idx) :
                  Synchronise(before, has_lrc, save_ok)
        ELSE /\ Raise("file")
             /\ UNCHANGED <<idx, dv, cur>>
    /\ UNCHANGED <<titleVars, syncVars, scrapeVars>>
    /\ UNCHANGED <<add_chinese_tag, worknos, ri, entered, paths_list, gi, titles, gzh,
                   dv0, png_bytes_arr, disc, calls, repair>>

\* tag_mp3s lines 46-99: one loop iteration up to the end of the first try;
\* on ID3NoHeaderError the temporary file is created
Mp3Sync ==
    /\ pc = "file"
    /\ idx <= Len(titles)
    /\ kind = "mp3"
    /\ \E opened \in {"ok", "ID3NoHeaderError", "error"} :
        CASE opened = "ok" ->
                /\ \E has_lrc \in BOOLEAN, save_ok \in BOOLEAN :
                     \E before \in Profiles("id3", Args,
                                            [has_lrc |-> has_lrc, parent_has_zh |-> gzh],
                                            Title, idx) :
                        Synchronise(before, has_lrc, save_ok)
                /\ repair' = NoRepair
          [] opened = "ID3NoHeaderError" ->
                /\ pc' = "ffmpeg"
                /\ repair' = [NoRepair EXCEPT !.temp = "created"]
                /\ cur' = NoCur
                /\ UNCHANGED <<idx, dv, exc>>
          [] opened = "error" ->
                /\ Raise("file")
                /\ repair' = NoRepair
                /\ UNCHANGED <<idx, dv, cur>>
    /\ UNCHANGED <<titleVars, syncVars, scrapeVars>>
    /\ UNCHANGED <<add_chinese_tag, worknos, ri, entered, paths_list, gi, titles, gzh,
                   dv0, png_bytes_arr, disc, calls>>

\* "continue": the loop goes on with the next file
Skip ==
    /\ idx' = idx + 1
    /\ pc' = "file"

\* lines 102-112: subprocess.run(ffmpeg_cmd, check=True); a failing ffmpeg is
\* caught, an ffmpeg that cannot be started (FileNotFoundError) is not
Ffmpeg ==
    /\ pc = "ffmpeg"
    /\ \E outcome \in {"ok", "CalledProcessError", "FileNotFoundError"} :
        CASE outcome = "ok" ->
                /\ repair' = [repair EXCEPT !.temp = "encoded"]
                /\ pc' = "replace"
                /\ UNCHANGED <<idx, exc>>
          [] outcome = "CalledProcessError" ->
                /\ repair' = [repair EXCEPT !.temp = "absent", !.failed = "transcode"]
                /\ Skip
                /\ UNCHANGED exc
          [] outcome = "FileNotFoundError" ->
                /\ Raise("file")
                /\ repair' = [repair EXCEPT !.failed = "start"]
                /\ UNCHANGED idx
    /\ UNCHANGED <<titleVars, syncVars, scrapeVars>>
    /\ UNCHANGED <<add_chinese_tag, worknos, ri, entered, paths_list, gi, titles, gzh,
                   dv, dv0, png_bytes_arr, disc, calls, cur>>

\* lines 115-121: os.replace(temp_file_path, str(p))
Replace ==
    /\ pc = "replace"
    /\ \E ok \in BOOLEAN :
        IF ok
        THEN /\ repair' = [repair EXCEPT !.temp = "absent", !.orig = "reencoded"]
             /\ pc' = "retry"
             /\ UNCHANGED idx
        ELSE /\ repair' = [repair EXCEPT !.temp = "absent", !.failed = "replace"]
             /\ Skip
    /\ UNCHANGED <<titleVars, syncVars, scrapeVars>>
    /\ UNCHANGED <<add_chinese_tag, worknos, ri, exc, entered, paths_list, gi, titles,
                   gzh, dv, dv0, png_bytes_arr, disc, calls, cur>>

\* lines 124-169: the second try, on the file ffmpeg wrote
Retry ==
    /\ pc = "retry"
    /\ \E opened \in {"ok", "ID3NoHeaderError", "error"} :
        CASE opened = "ok" ->
                /\ \E has_lrc \in BOOLEAN, save_ok \in BOOLEAN :
                      Synchronise(Id3Empty, has_lrc, save_ok)
                /\ repair' = IF pc' = "raised" THEN [repair EXCEPT !.failed = "retry"]
                              ELSE NoRepair
          [] opened = "ID3NoHeaderError" ->
                /\ Skip
                /\ repair' = [repair EXCEPT !.failed = "retry"]
                /\ UNCHANGED <<dv, cur, exc>>
          [] opened = "error" ->
                /\ Raise("file")
                /\ repair' = [repair EXCEPT !.failed = "retry"]
                /\ UNCHANGED <<idx, dv, cur>>
    /\ UNCHANGED <<titleVars, syncVars, scrapeVars>>
    /\ UNCHANGED <<add_chinese_tag, worknos, ri, entered, paths_list, gi, titles, gzh,
                   dv0, png_bytes_arr, disc, calls>>

\* the synchroniser returns; lines 345-346, 351-352, 357-358, 363-364
GroupReturn ==
    /\ pc = "file"
    /\ idx > Len(titles)
    /\ disc' = NextDisc(disc)
    /\ gi' = gi + 1
    /\ pc' = "groups"
    /\ cur' = NoCur
    /\ repair' = NoRepair
    /\ UNCHANGED <<titleVars, syncVars, scrapeVars>>
    /\ UNCHANGED <<add_chinese_tag, worknos, ri, exc, entered, paths_list, titles, gzh,
                   idx, dv, dv0, png_bytes_arr, calls>>

\* line 366: tag() returns, start() goes on
TagReturn ==
    /\ pc = "groups"
    /\ gi = total_lists(paths_list)
    /\ ri' = ri + 1
    /\ pc' = "start"
    /\ ReleaseReset
    /\ UNCHANGED <<titleVars, syncVars, scrapeVars>>
    /\ UNCHANGED <<add_chinese_tag, worknos, exc, entered>>

TagNext ==
    \/ TagNoAudio
    \/ TagEnter
    \/ StartReturn
    \/ Scrape
    \/ CoverFetch
    \/ GroupCall
    \/ FileSync
    \/ Mp3Sync
    \/ Ffmpeg
    \/ Replace
    \/ Retry
    \/ GroupReturn
    \/ TagReturn

-----------------------------------------------------------------------------
(* Specifications *)

InitTitles == TitlesInit /\ SyncIdle /\ TagIdle /\ ScrapeIdle

SpecTitles == InitTitles /\ [][ExtractTitles]_vars

InitSync == SyncInit /\ TitlesIdle /\ TagIdle /\ ScrapeIdle

SpecSync == InitSync /\ [][SyncNext]_vars

Init == TagInit /\ TitlesIdle /\ SyncIdle /\ ScrapeIdle

Next == TagNext

Spec == Init /\ [][Next]_vars

InitScrape == ScrapeInit /\ TitlesIdle /\ SyncIdle /\ TagIdle

SpecScrape == InitScrape /\ [][ScrapeCall]_vars

-----------------------------------------------------------------------------
(* Claims about extract_titles (under SpecTitles) *)

Returned == extracted_titles # <<>>

\* every returned title is the original stem (with the group's suffixes)
AllOriginal ==
    \A i \in 1..Len(sorted_stems) :
        extracted_titles[1][i] = sorted_stems[i] \o Suffixes(tgroup, tconfig)

\* every returned title is the body _title_pat extracts from the stem
AllExtracted ==
    \A i \in 1..Len(sorted_stems) :
        /\ title_pat(sorted_stems[i]).m
        /\ extracted_titles[1][i] = title_pat(sorted_stems[i]).g4 \o Suffixes(tgroup, tconfig)

\* C2: for a list of two or more stems extract_titles returns the extracted
\* body for every stem or the original stem for every stem, never a mix;
\* if any stem fails to match the title pattern, every title is the
\* original stem.
C2_AllOrNothing ==
    (Returned /\ Len(sorted_stems) >= 2) =>
        /\ AllOriginal \/ AllExtracted
        /\ (\E i \in 1..Len(sorted_stems) : ~title_pat(sorted_stems[i]).m) => AllOriginal

\* C3: whenever two stems of the list yield the same extracted body,
\* extract_titles returns the original stems unchanged.
C3_DuplicateBodyRejected ==
    (Returned /\ \E i, j \in 1..Len(sorted_stems) :
                    /\ i # j
                    /\ title_pat(sorted_stems[i]).m
                    /\ title_pat(sorted_stems[j]).m
                    /\ title_pat(sorted_stems[i]).g4 = title_pat(sorted_stems[j]).g4)
        => AllOriginal

\* C13: for a list of no or one stem, extract_titles returns the stems as
\* they are (with the group's suffixes): nothing is stripped from "01 x".
C13_TrivialInputUnchanged ==
    (Returned /\ Len(sorted_stems) <= 1) => AllOriginal

\* what _title_pat reads in a stem it matches: the prefix marker (group 1),
\* the index (group 2, as a number) and the separator (group 3)
StemParts(stem) ==
    LET s    == AfterPrefix(stem)
        n    == RunLen(s, Digits)
        rest == Drop(s, n)
    IN  [marker |-> SubSeq(stem, 1, Len(stem) - Len(s)),
         index  |-> NumVal(SubSeq(s, 1, n)),
         sep    |-> SubSeq(rest, 1, Len(rest) - Len(title_pat(stem).g4))]

\* every stem has the first stem's marker and separator, and its index
\* minus its position is the first stem's
OffsetConsistent(stems) ==
    \A i \in 1..Len(stems) :
        /\ StemParts(stems[i]).index - i = StemParts(stems[1]).index - 1
        /\ StemParts(stems[i]).marker = StemParts(stems[1]).marker
        /\ StemParts(stems[i]).sep = StemParts(stems[1]).sep

\* C14: when every stem matches the title pattern but the indices do not
\* run on from the first stem's, or a marker or separator differs from the
\* first stem's, extract_titles returns the original stems.
C14_OffsetViolationKeepsStems ==
    (/\ Returned
     /\ \A i \in 1..Len(sorted_stems) : title_pat(sorted_stems[i]).m
     /\ ~OffsetConsistent(sorted_stems))
        => AllOriginal

-----------------------------------------------------------------------------
(* Claims about one synchroniser called twice (under SpecSync) *)

\* C1: when a synchroniser is called twice in a row on the same group with
\* the same metadata, titles, cover and disc number, the second call saves
\* no file.
C1_SecondCallSavesNothing == ssaves[2] = {}

\* C1 holds of tag_mp3s and tag_flacs: only tag_mp4s saves again
C1_Id3FlacOnly == sfmt \in {"mp3", "flac"} => ssaves[2] = {}

-----------------------------------------------------------------------------
(* Claims about tag() and start(), under Spec.  cur is the loop iteration  *)
(* a synchroniser has just completed on one file.                          *)

\* the disc field of a container, <<>> when it has none
DiscField(fmt, c) ==
    CASE fmt = "id3"  -> IF "TPOS" \in DOMAIN c.frames THEN c.frames["TPOS"] ELSE <<>>
      [] fmt = "flac" -> IF "discnumber" \in DOMAIN c.vc THEN c.vc["discnumber"] ELSE <<>>
      [] fmt = "mp4"  -> IF "disk" \in DOMAIN c THEN c["disk"] ELSE <<>>

\* the disc field that stands for disc k
DiscValue(fmt, k) == IF fmt = "mp4" THEN <<Pair(k)>> ELSE <<Str(k)>>

\* C4: with N groups in all, the k-th synchroniser call is for the k-th group
\* in the order FLAC, M4A, MP3, MP4 and receives disc = k if N > 1 and
\* disc = None if N = 1; a file's disc field is written as k if N > 1, and
\* is not written (ID3: is absent) if N = 1.
C4_DiscNumbering ==
    LET N == total_lists(paths_list)
    IN  /\ \A k \in 1..Len(calls) :
              /\ calls[k].kind = KindAt(paths_list, k)
              /\ calls[k].disc = IF N = 1 THEN NoDisc ELSE k
        /\ cur.valid =>
              DiscField(cur.fmt, cur.after) =
                 IF N > 1 THEN DiscValue(cur.fmt, Len(calls))
                 ELSE IF cur.fmt = "id3" THEN <<>>
                 ELSE DiscField(cur.fmt, cur.before)

\* C4 witness: the second of several groups has been called with disc 2 and
\* one of its files synchronised
C4_SecondGroupTagged ==
    /\ Len(calls) = 2
    /\ calls[2].disc = 2
    /\ cur.valid
    /\ DiscField(cur.fmt, cur.after) = DiscValue(cur.fmt, 2)

\* the cover art a container embeds
Covers(fmt, c) ==
    CASE fmt = "id3"  -> c.apic
      [] fmt = "flac" -> c.pictures
      [] fmt = "mp4"  -> IF "covr" \in DOMAIN c THEN c["covr"] ELSE <<>>

\* C5: when the cover fetch failed (png_bytes_arr is None), the cover art a
\* file embeds is the same after its synchronisation as before.
C5_CoverKeptWithoutFetch ==
    (cur.valid /\ cur.args.png_bytes_arr = <<>>)
        => Covers(cur.fmt, cur.stored) = Covers(cur.fmt, cur.before)

Count(l, x) == Cardinality({i \in DOMAIN l : l[i] = x})

\* C6: with add_chinese_tag enabled and a sidecar .lrc file next to the
\* track, the genres written to the track hold the Chinese tag exactly once.
C6_ChineseTagOnce ==
    (cur.valid /\ add_chinese_tag /\ cur.file.has_lrc)
        => Count(cur.genres, ChineseTag) = 1

\* C7: when a failure on one file leaves tag(), no file of the group and no
\* group of the release was still to be processed.
C7_FileFailureIsolated ==
    (pc = "raised" /\ exc = "file")
        => (idx = Len(titles) /\ gi + 1 = total_lists(paths_list))

\* C8: when start() is over and no file failed, tag() has been called for
\* every release of the list, whatever scrape() raised.
C8_LaterReleasesTagged ==
    (pc \in {"exit", "raised"} /\ exc # "file") => entered = 1..worknos

\* the managed fields of a container as a file holds them
ManagedOf(fmt, c) ==
    CASE fmt = "id3"  -> [text |-> [k \in DOMAIN c.frames \cap Id3TextFrames |-> c.frames[k]],
                          cover |-> Range(c.apic)]
      [] fmt = "flac" -> [text |-> [k \in DOMAIN c.vc \cap FlacKeys |-> c.vc[k]],
                          cover |-> c.pictures]
      [] fmt = "mp4"  -> [k \in DOMAIN c \cap Mp4Keys |-> Mp4Stored(c)[k]]

\* C9: a file is saved if and only if applying the target fields changes a
\* managed field of it.
C9_SavedIffManagedChange ==
    cur.valid =>
        (cur.save <=> ManagedOf(cur.fmt, cur.before) # ManagedOf(cur.fmt, cur.after))

\* C10: after scrape() returned, the DoujinVoice record tag() holds, and the
\* one every synchroniser call works with, is the record scrape() returned.
C10_MetadataReadOnly ==
    /\ dv = dv0
    /\ cur.valid => cur.args.dv = dv0[1]

\* C10 witness: a file has been written genres enriched with the Chinese
\* tag, which the record scrape() returned does not hold
C10_EnrichedFile ==
    /\ cur.valid
    /\ dv0[1].genres # <<>>
    /\ ChineseTag \notin Range(dv0[1].genres)
    /\ ChineseTag \in Range(cur.genres)

-----------------------------------------------------------------------------
(* Claims about scrape() (under SpecScrape) *)

Resolved == sresult # <<>> /\ sresult[1].status = "ok"

\* C11: whenever scrape() returns a record, its name, circle and sale_date
\* are non-empty.
C11_MandatoryFieldsNonEmpty ==
    Resolved => /\ sresult[1].dv[1].name # <<>>
                /\ sresult[1].dv[1].circle # <<>>
                /\ sresult[1].dv[1].sale_date # <<>>

PrimaryName == unescape(sweb.html.product[1].name)
WorkName == sweb.payload.works[1].work_name

\* a is a run of consecutive characters of b
Occurs(a, b) ==
    \E pre \in 0..Len(b) :
        /\ pre + Len(a) <= Len(b)
        /\ \A k \in 1..Len(a) : b[pre + k] = a[k]

\* C17: when scrape() returns a record and the payload reports a non-zero
\* count, the name is the payload's work_name exactly when that work_name
\* occurs in the primary document's name, and the primary document's name
\* otherwise; with a zero count it is the primary document's name.
C17_NamePrecedence ==
    Resolved =>
        LET name == sresult[1].dv[1].name
        IN  IF sweb.payload.count # 0
            THEN /\ (name = WorkName) <=> Occurs(WorkName, PrimaryName)
                 /\ name # WorkName => name = PrimaryName
            ELSE name = PrimaryName

\* C17 witness: the work_name occurs inside the primary name, not at its
\* start, and has replaced it
C17_InnerNameTaken ==
    /\ Resolved
    /\ sweb.payload.count # 0
    /\ PrimaryName = <<"!", "A">>
    /\ WorkName = <<"A">>
    /\ sresult[1].dv[1].name = <<"A">>

-----------------------------------------------------------------------------
(* Further claims about tag() (under Spec) *)

\* C12: whenever tag() is at the cover fetch or beyond, or has called a
\* synchroniser, or a file has been synchronised, scrape() has returned a
\* record; when scrape() raised, no synchroniser was called and no file
\* was synchronised.
C12_NothingBeforeMetadata ==
    /\ (\/ pc \in {"cover", "groups", "file", "ffmpeg", "replace", "retry"}
        \/ calls # <<>>
        \/ cur.valid
        \/ png_bytes_arr # <<>>) => dv # <<>>
    /\ exc = "ParsingError" => (calls = <<>> /\ ~cur.valid /\ png_bytes_arr = <<>>)

\* C12 witness: a cover was fetched and a file saved, with the record at hand
C12_SavedWithMetadata ==
    /\ dv # <<>>
    /\ png_bytes_arr # <<>>
    /\ cur.valid
    /\ cur.save

\* C15: when the repair of an MP3 file or the retry after it fails, the
\* file is skipped and the loop is at the next file.
C15_RepairFailureSkipsFile ==
    repair.failed # "" => (pc = "file" /\ ~cur.valid)

\* C16: when the repair of an MP3 file fails (ffmpeg fails or cannot be
\* started, or the replace fails), the temporary file is gone and the
\* original file is as it was.
C16_FailedRepairLeavesNoTrace ==
    repair.failed \in {"transcode", "start", "replace"}
        => (repair.temp = "absent" /\ repair.orig = "intact")

\* the cover images a file embeds, one per entry
CoverCount(fmt, c) ==
    CASE fmt = "id3"  -> Cardinality(DOMAIN c.apic)
      [] fmt = "flac" -> Len(c.pictures)
      [] fmt = "mp4"  -> IF "covr" \in DOMAIN c THEN Len(c["covr"]) ELSE 0

CoverBytes(fmt, c) ==
    CASE fmt = "id3"  -> {c.apic[k][1] : k \in DOMAIN c.apic}
      [] fmt = "flac" -> Range(c.pictures)
      [] fmt = "mp4"  -> IF "covr" \in DOMAIN c THEN Range(c["covr"]) ELSE {}

\* C18: after a file has been synchronised with a cover, its tag container
\* embeds exactly one cover image, the supplied one.
C18_SingleCover ==
    (cur.valid /\ cur.args.png_bytes_arr # <<>>)
        => /\ CoverCount(cur.fmt, cur.after) = 1
           /\ CoverBytes(cur.fmt, cur.after) = {cur.args.png_bytes_arr[1]}

====
